---- MODULE Spec2Model ----
(***************************************************************************)
(* Model of iterm2_dwim/editors/sublime.py: Sublime.visit_file(path, line) *)
(* rewrites a trailing ".pyc" of the path to ".py", builds the argument    *)
(* vector [executable, "path:line"], logs it joined by spaces and runs it  *)
(* with subprocess.check_call, which starts a child process, waits for it  *)
(* and raises CalledProcessError on a non-zero exit status.                *)
(*                                                                         *)
(* Strings are sequences of one-character strings, so that the regular     *)
(* expression, the %-formatting and the join are computed character by     *)
(* character.                                                              *)
(***************************************************************************)
EXTENDS Integers, Sequences, FiniteSets, TLC

\* ---------------------------------------------------------------- bounds
\* Paths are concatenations of at most MaxSegs pieces of PathPieces.
MaxSegs == 3
\* Line numbers range over -1..MaxLine, plus the two-digit line 42.
MaxLine == 2
\* Exit statuses of the child range over 0..MaxExit.
MaxExit == 2
\* Number of visit_file calls made on one adapter.
MaxCalls == 2

\* ------------------------------------------------------- string helpers
NL == "\n"

RECURSIVE Flatten(_)
\* Concatenation of a sequence of strings.
Flatten(ss) ==
    IF ss = <<>> THEN <<>> ELSE Head(ss) \o Flatten(Tail(ss))

PathPieces ==
    { <<"/">>, <<"a">>, <<".", "p", "y", "c">>, <<".", "p", "y">>, <<NL>> }

PieceSeqs == UNION { [1..n -> PathPieces] : n \in 0..MaxSegs }

Paths == { Flatten(ps) : ps \in PieceSeqs }

Lines == (-1..MaxLine) \cup {42}

ExitCodes == 0..MaxExit

Executables == { <<"s", "u", "b", "l">>, <<"/", "s">> }

Digits == <<"0", "1", "2", "3", "4", "5", "6", "7", "8", "9">>

RECURSIVE NatToStr(_)
\* Decimal digits of a natural number, most significant first.
NatToStr(n) ==
    IF n < 10 THEN <<Digits[n + 1]>>
    ELSE NatToStr(n \div 10) \o <<Digits[(n % 10) + 1]>>

\* '%s' % line for an integer line.
IntToStr(n) == IF n < 0 THEN <<"-">> \o NatToStr(-n) ELSE NatToStr(n)

\* ------------------------------------------------ re.sub('\.pyc$', '.py', s)
\* '$' matches after pos characters of s: at the end of the string, and
\* also just before a newline that is the last character of the string.
DollarAt(s, pos) ==
    \/ pos = Len(s)
    \/ pos = Len(s) - 1 /\ s[Len(s)] = NL

\* The pattern '\.pyc$' matches at index i (1-based) of s.
MatchAt(s, i) ==
    /\ i + 3 <= Len(s)
    /\ s[i] = "." /\ s[i + 1] = "p" /\ s[i + 2] = "y" /\ s[i + 3] = "c"
    /\ DollarAt(s, i + 3)

RECURSIVE SubFrom(_, _)
\* Left-to-right scan of re.sub from index i: every non-overlapping match
\* is replaced by '.py', every other character is copied.
SubFrom(s, i) ==
    IF i > Len(s) THEN <<>>
    ELSE IF MatchAt(s, i) THEN <<".", "p", "y">> \o SubFrom(s, i + 4)
    ELSE <<s[i]>> \o SubFrom(s, i + 1)

ReSub(s) == SubFrom(s, 1)

\* '%s:%s' % (path, line)
Format(p, l) == p \o <<":">> \o IntToStr(l)

\* A join that forgets the separator.
JoinNoSeparator(cmd) == Flatten(cmd)

RECURSIVE Join(_)
\* ' '.join(cmd)
Join(cmd) ==
    IF cmd = <<>> THEN <<>>
    ELSE IF Len(cmd) = 1 THEN Head(cmd)
    ELSE Head(cmd) \o <<" ">> \o Join(Tail(cmd))

\* ------------------------------------------------------------------ state
VARIABLES
    executable,   \* self.executable, set at construction
    args,         \* the (path, line) the caller passed to the current call
    path,         \* local variable path (rebound on line 12)
    cmd,          \* local variable cmd
    logged,       \* lines passed to log() by the current call
    pc,           \* position of the current call
    child,        \* "none", "running", "exited": the child process
    argv,         \* argument vector the child was started with
    status,       \* exit status of the child once it has exited
    retcode,      \* value returned by the blocking wait
    outcome,      \* how the call ended, as seen by the caller
    attempts,     \* process starts attempted by the current call
    started,      \* child processes started by the current call
    calls,        \* calls made on this adapter so far
    failedBefore  \* some earlier call on this adapter raised

vars == <<executable, args, path, cmd, logged, pc, child, argv, status,
          retcode, outcome, attempts, started, calls, failedBefore>>

NoOutcome == [kind |-> "none", code |-> 0]
Success == [kind |-> "ok", code |-> 0]
CalledProcessError(c) == [kind |-> "CalledProcessError", code |-> c]
OSError == [kind |-> "OSError", code |-> 0]

Ended == pc \in {"returned", "raised"}

Init ==
    /\ executable \in Executables
    /\ args = [path |-> <<>>, line |-> 1]
    /\ path = <<>>
    /\ cmd = <<>>
    /\ logged = <<>>
    /\ pc = "idle"
    /\ child = "none"
    /\ argv = <<>>
    /\ status = 0
    /\ retcode = 0
    /\ outcome = NoOutcome
    /\ attempts = 0
    /\ started = 0
    /\ calls = 0
    /\ failedBefore = FALSE

\* The caller invokes visit_file(p, l); the previous call, if any, is over.
VisitFile(p, l) ==
    /\ pc \in {"idle", "returned", "raised"}
    /\ calls < MaxCalls
    /\ calls' = calls + 1
    /\ failedBefore' = (failedBefore \/ pc = "raised")
    /\ args' = [path |-> p, line |-> l]
    /\ path' = p
    /\ cmd' = <<>>
    /\ logged' = <<>>
    /\ child' = "none"
    /\ argv' = <<>>
    /\ status' = 0
    /\ retcode' = 0
    /\ outcome' = NoOutcome
    /\ attempts' = 0
    /\ started' = 0
    /\ pc' = "normalize"
    /\ UNCHANGED executable

\* A variant that rejects line numbers below 1 before doing anything else.
NormalizeValidating ==
    /\ pc = "normalize"
    /\ IF args.line < 1
       THEN /\ outcome' = [kind |-> "ValueError", code |-> 0]
            /\ pc' = "raised"
            /\ path' = path
       ELSE /\ outcome' = outcome
            /\ pc' = "build"
            /\ path' = ReSub(path)
    /\ UNCHANGED <<executable, args, cmd, logged, child, argv, status,
                   retcode, attempts, started, calls, failedBefore>>

\* line 12: path = re.sub('\.pyc$', '.py', path)
Normalize ==
    /\ pc = "normalize"
    /\ path' = ReSub(path)
    /\ pc' = "build"
    /\ UNCHANGED <<executable, args, cmd, logged, child, argv, status,
                   retcode, outcome, attempts, started, calls, failedBefore>>

\* A variant that passes path and line as two separate arguments.
BuildCmdSplit ==
    /\ pc = "build"
    /\ cmd' = <<executable, path, IntToStr(args.line)>>
    /\ pc' = "log"
    /\ UNCHANGED <<executable, args, path, logged, child, argv, status,
                   retcode, outcome, attempts, started, calls, failedBefore>>

\* A variant that, once a call has failed, opens the file at line 1.
BuildCmdAfterFailure ==
    /\ pc = "build"
    /\ cmd' = <<executable,
                Format(path, IF failedBefore THEN 1 ELSE args.line)>>
    /\ pc' = "log"
    /\ UNCHANGED <<executable, args, path, logged, child, argv, status,
                   retcode, outcome, attempts, started, calls, failedBefore>>

\* lines 14-17: cmd = [self.executable, '%s:%s' % (path, line)]
BuildCmd ==
    /\ pc = "build"
    /\ cmd' = <<executable, Format(path, args.line)>>
    /\ pc' = "log"
    /\ UNCHANGED <<executable, args, path, logged, child, argv, status,
                   retcode, outcome, attempts, started, calls, failedBefore>>

\* line 18: log(' '.join(cmd))
Log ==
    /\ pc = "log"
    /\ logged' = Append(logged, Join(cmd))
    /\ pc' = "spawn"
    /\ UNCHANGED <<executable, args, path, cmd, child, argv, status,
                   retcode, outcome, attempts, started, calls, failedBefore>>

\* line 19, subprocess.check_call(cmd): the child process is started.
SpawnOk ==
    /\ pc = "spawn"
    /\ attempts' = attempts + 1
    /\ started' = started + 1
    /\ child' = "running"
    /\ argv' = cmd
    /\ pc' = "wait"
    /\ UNCHANGED <<executable, args, path, cmd, logged, status, retcode,
                   outcome, calls, failedBefore>>

\* line 19: the operating system cannot start the executable (it does not
\* exist, is not executable, ...); the error raised by the start propagates.
SpawnFail ==
    /\ pc = "spawn"
    /\ attempts' = attempts + 1
    /\ outcome' = OSError
    /\ pc' = "raised"
    /\ UNCHANGED <<executable, args, path, cmd, logged, child, argv, status,
                   retcode, started, calls, failedBefore>>

\* The editor process exits with status c.
ChildExit(c) ==
    /\ child = "running"
    /\ child' = "exited"
    /\ status' = c
    /\ UNCHANGED <<executable, args, path, cmd, logged, pc, argv, retcode,
                   outcome, attempts, started, calls, failedBefore>>

\* A variant that polls the child instead of waiting for it.
WaitNoBlock ==
    /\ pc = "wait"
    /\ retcode' = status
    /\ pc' = "check"
    /\ UNCHANGED <<executable, args, path, cmd, logged, child, argv, status,
                   outcome, attempts, started, calls, failedBefore>>

\* line 19: the blocking wait of check_call returns the exit status.
Wait ==
    /\ pc = "wait"
    /\ child = "exited"
    /\ retcode' = status
    /\ pc' = "check"
    /\ UNCHANGED <<executable, args, path, cmd, logged, child, argv, status,
                   outcome, attempts, started, calls, failedBefore>>

\* subprocess.call in place of check_call: the exit status is ignored.
CheckRetcodeIgnored ==
    /\ pc = "check"
    /\ outcome' = Success
    /\ pc' = "returned"
    /\ UNCHANGED <<executable, args, path, cmd, logged, child, argv, status,
                   retcode, attempts, started, calls, failedBefore>>

\* A variant raising on every exit status except 1.
CheckRetcodeWrongTest ==
    /\ pc = "check"
    /\ IF retcode = 1
       THEN /\ outcome' = Success
            /\ pc' = "returned"
       ELSE /\ outcome' = CalledProcessError(retcode)
            /\ pc' = "raised"
    /\ UNCHANGED <<executable, args, path, cmd, logged, child, argv, status,
                   retcode, attempts, started, calls, failedBefore>>

\* A variant that runs the command a second time after a non-zero exit.
CheckRetcodeRetry ==
    /\ pc = "check"
    /\ IF retcode = 0
       THEN /\ outcome' = Success
            /\ pc' = "returned"
            /\ child' = child
       ELSE IF attempts < 2
       THEN /\ outcome' = outcome
            /\ pc' = "spawn"
            /\ child' = "none"
       ELSE /\ outcome' = CalledProcessError(retcode)
            /\ pc' = "raised"
            /\ child' = child
    /\ UNCHANGED <<executable, args, path, cmd, logged, argv, status,
                   retcode, attempts, started, calls, failedBefore>>

\* line 19: check_call raises CalledProcessError(retcode) unless retcode is
\* 0; visit_file has no try block, so the error reaches the caller.
CheckRetcode ==
    /\ pc = "check"
    /\ IF retcode = 0
       THEN /\ outcome' = Success
            /\ pc' = "returned"
       ELSE /\ outcome' = CalledProcessError(retcode)
            /\ pc' = "raised"
    /\ UNCHANGED <<executable, args, path, cmd, logged, child, argv, status,
                   retcode, attempts, started, calls, failedBefore>>

Next ==
    \/ \E p \in Paths, l \in Lines : VisitFile(p, l)
    \/ Normalize
    \/ BuildCmd
    \/ Log
    \/ SpawnOk
    \/ SpawnFail
    \/ \E c \in ExitCodes : ChildExit(c)
    \/ Wait
    \/ CheckRetcode

Spec == Init /\ [][Next]_vars

TypeOK ==
    /\ executable \in Executables
    /\ pc \in {"idle", "normalize", "build", "log", "spawn", "wait",
               "check", "returned", "raised"}
    /\ child \in {"none", "running", "exited"}
    /\ status \in ExitCodes
    /\ calls \in 0..MaxCalls

\* ----------------------------------------------------------------- claims
Pyc == <<".", "p", "y", "c">>
Py == <<".", "p", "y">>
Subl == <<"s", "u", "b", "l">>

\* s ends in the four characters '.pyc'.
EndsWithPyc(s) == Len(s) >= 4 /\ SubSeq(s, Len(s) - 3, Len(s)) = Pyc

\* The normalization as the specification words it: a final '.pyc' becomes
\* '.py', every other string is kept.
SuffixNormalized(s) ==
    IF EndsWithPyc(s) THEN SubSeq(s, 1, Len(s) - 4) \o Py ELSE s

\* The command line of the current call: executable, one space, the
\* normalized path, one colon, the decimal line.
CommandArg == ReSub(args.path) \o <<":">> \o IntToStr(args.line)
CommandLine == executable \o <<" ">> \o CommandArg

\* The outcome that the result of the call's own child process determines.
OutcomeOfChild ==
    IF started = 0 THEN OSError
    ELSE IF status = 0 THEN Success
    ELSE CalledProcessError(status)

\* C1: the path used in the command is the input path with a final '.pyc'
\* replaced by '.py' when the input ends in '.pyc', and is the input path
\* itself for every other input, a '.pyc' followed by a newline included.
C1_SuffixRewrittenOnlyAtEnd ==
    cmd # <<>> =>
        cmd[2] = SuffixNormalized(args.path) \o <<":">> \o IntToStr(args.line)

\* C2: the argument vector given to the child has exactly two elements, the
\* executable unchanged and the single string '<normalized path>:<line>';
\* '/a.pyc' at line 42 with executable 'subl' gives ['subl', '/a.py:42'].
C2_ArgvIsExecutableAndPathLine ==
    child # "none" =>
        /\ Len(argv) = 2
        /\ argv[1] = executable
        /\ argv[2] = CommandArg
        /\ (executable = Subl /\ args.path = <<"/", "a">> \o Pyc
              /\ args.line = 42)
             => argv = <<Subl, <<"/", "a", ".", "p", "y", ":", "4", "2">>>>
        /\ (executable = Subl /\ args.path = <<"/", "a", "/", "a">>
              /\ args.line = 1)
             => argv = <<Subl, <<"/", "a", "/", "a", ":", "1">>>>

C2_Witness ==
    /\ child = "running"
    /\ executable = Subl
    /\ args.path = <<"/", "a">> \o Pyc
    /\ args.line = 42

\* C3: when the child exited with a non-zero status c, the call does not
\* return normally; it ends by raising CalledProcessError carrying c.
C3_NonZeroExitRaisesWithCode ==
    (Ended /\ child = "exited" /\ status # 0) =>
        /\ pc = "raised"
        /\ outcome = CalledProcessError(status)

C3_Witness ==
    pc = "raised" /\ child = "exited" /\ status = 2

\* C4: when the child exited with status 0, the call returns with no error;
\* a call that raises after it started a child had a non-zero exit status.
C4_ZeroExitReturns ==
    /\ (Ended /\ child = "exited" /\ status = 0) =>
           pc = "returned" /\ outcome = Success
    /\ (pc = "raised" /\ started > 0) => (child = "exited" /\ status # 0)

C4_Witness ==
    pc = "returned" /\ child = "exited" /\ status = 0

\* C5: whenever a process start has been attempted, the call has already
\* logged exactly one line, the command line joined by single spaces.
C5_LoggedBeforeSpawn ==
    /\ (attempts > 0 \/ child # "none") => logged = <<CommandLine>>
    /\ pc = "spawn" => logged = <<CommandLine>>

C5_Witness ==
    /\ child = "running"
    /\ EndsWithPyc(args.path)
    /\ logged = <<executable \o <<" ">> \o
                  SubSeq(args.path, 1, Len(args.path) - 1) \o <<":">> \o
                  IntToStr(args.line)>>

\* C6: once a child is started, the caller regains control only after that
\* child has exited: no child is running when the call has ended.
C6_NoChildRunningAtEnd ==
    /\ Ended => child # "running"
    /\ (Ended /\ started > 0) => child = "exited"

C6_Witness ==
    Ended /\ started = 1 /\ child = "exited"

\* C7 as stated: every call starts exactly one child process.
C7_ExactlyOneChild ==
    Ended => started = 1

\* C7 amended: every call attempts exactly one process start, never a
\* second one after a non-zero exit; it starts exactly one child unless
\* that start itself fails, and then it starts none.
C7_SingleAttempt ==
    /\ attempts <= 1
    /\ started <= attempts
    /\ Ended =>
          /\ attempts = 1
          /\ started = (IF outcome = OSError THEN 0 ELSE 1)

C7_Witness ==
    /\ pc = "raised"
    /\ outcome = CalledProcessError(1)
    /\ attempts = 1
    /\ started = 1

\* C8 as stated: no call ends before the process start and the only error
\* a call produces is the failure of the external process.
C8_OnlyProcessFailure ==
    /\ Ended => (attempts = 1 /\ cmd = <<executable, CommandArg>>
                   /\ logged = <<CommandLine>>)
    /\ pc = "raised" => outcome.kind = "CalledProcessError"

\* C8 amended: whatever the path and the line, the command is built and
\* logged and the process start is attempted before the call ends; a call
\* raises either the failure of the external process or the error of a
\* start that could not launch the executable.
C8_NoLocalValidation ==
    /\ Ended => (attempts = 1 /\ cmd = <<executable, CommandArg>>
                   /\ logged = <<CommandLine>>)
    /\ pc = "raised" => outcome.kind \in {"CalledProcessError", "OSError"}

C8_Witness ==
    /\ Ended
    /\ started = 1
    /\ args.line < 1
    /\ args.path = <<"/", "a">>

\* The occurrences of '.pyc' in s that do not end s.
InnerPycs(s) ==
    { i \in 1..Len(s) : i + 3 < Len(s) /\ SubSeq(s, i, i + 3) = Pyc }

\* C9: the normalization changes only the end of the path: a '.pyc' that is
\* not at the end stays where it is, at most one occurrence is replaced,
\* and normalizing a normalized path changes nothing.
C9_OnlyTheEndIdempotent ==
    pc \in {"build", "log", "spawn"} =>
        /\ \A i \in InnerPycs(args.path) :
              i + 3 <= Len(path) /\ SubSeq(path, i, i + 3) = Pyc
        /\ Len(args.path) - Len(path) \in {0, 1}
        /\ ReSub(path) = path

\* C10: the executable never changes, and in every call, whatever the
\* number and the outcomes of the earlier calls, the command and the log
\* line are those of the call's own path and line and the outcome is the
\* one the call's own child process determines.
C10_Stateless ==
    /\ [][executable' = executable]_vars
    /\ [](/\ cmd # <<>> => cmd = <<executable, CommandArg>>
          /\ logged # <<>> => logged = <<CommandLine>>
          /\ Ended => outcome = OutcomeOfChild)

C10_Witness ==
    /\ calls = 2
    /\ failedBefore
    /\ pc = "returned"
    /\ args.line = 42
====
